---- MODULE Spec2Model ----
(***************************************************************************)
(* Model of analyze_video_durations.py: the VideoStatsProcessor (processed *)
(* set store, paginated storage listing, folder processor) and the monitor *)
(* loop of main()/run_monitoring().                                        *)
(*                                                                         *)
(* Spec      the whole process: main(), run_initial_processing(),          *)
(*           check_new_folders(), process_folder(), run_monitoring(),      *)
(*           with the storage backend, the persisted file and the          *)
(*           interrupt signal as the environment.                          *)
(* SpecList  the pagination loop of get_all_upload_folders() and           *)
(*           get_json_files_from_folder() over an explicit sequence of     *)
(*           backend pages.                                                *)
(* SpecListAny the same loop against a backend whose truncated pages may   *)
(*           come without a continuation token.                            *)
(* SpecRun   one run of the process, without the restart.                  *)
(* SpecFolder one process_folder() call on a folder of known content.      *)
(* SpecDur   parse_duration() and seconds_to_hms() applied in turn.        *)
(* SpecAgg   the statistics of process_folder() on a given sample list.    *)
(* SpecLive  one uninterrupted run with a backend that stops failing,      *)
(*           under weak fairness of the process's steps.                   *)
(***************************************************************************)
EXTENDS Integers, Sequences, FiniteSets, TLC

\* ------------------------------------------------------------------ bounds
NumFolders == 3
MaxKeys == 2
MaxListKeys == 3
MaxPageSize == 2
MaxHours == 25
MaxSamples == 3
MaxRequests == 5

\* ------------------------------------------------------- program constants
CHECK_INTERVAL == 300
RECOVERY_INTERVAL == 5

Folders == 1..NumFolders

\* processed_folders.json holding the list of S, as json.dump() writes it
File(S) == [valid |-> TRUE, folders |-> S]

\* what json.load() cannot read back: the file was truncated by open(.., 'w')
\* and the write did not complete
Corrupt == [valid |-> FALSE, folders |-> {}]

VARIABLES
    state,              \* ColdStart | Backfilling | Polling | Stopped | Crashed
    pc,                 \* position in the code
    raised,             \* exception being handled or that ended the process
    exists,             \* folder prefixes under raw/uploads/ in the bucket
    persisted,          \* content of processed_folders.json
    processed_folders,  \* self.processed_folders
    loaded,             \* what load_processed_folders() returned at this start
    passed,             \* folders given to process_folder() in this run
    succeeded,          \* folders whose process_folder() returned True in this run
    stats_output,       \* folders with a video_stats_<name>.csv in OUTPUT_DIR
    todo,               \* the sequence the for loop iterates (all_folders / sorted(new_folders))
    pos,                \* how many elements of todo the for loop has taken
    folder_prefix,      \* argument of the running process_folder(), 0 if none
    continuation_token, \* get_json_files_from_folder: 0 is None, else pages fetched
    total_objects,      \* get_json_files_from_folder: objects seen so far
    json_files,         \* keys ending in .json accumulated / being read
    i,                  \* process_folder: manifests read so far
    durations_seconds,  \* process_folder: valid samples so far
    wait,               \* argument of the running time.sleep(), 0 if none
    result,             \* terminal state of the last process_folder(): none while running
    list_response,      \* how the last s3.list_objects_v2 call ended, and for which page
    pages,              \* SpecList: the backend's pages
    kind,               \* SpecList: "folders" or "manifests"
    token,              \* SpecList: continuation_token, 0 is None
    acc,                \* SpecList: folders / json_files
    lpc,                \* SpecList: "loop" | "returned"
    requests,           \* SpecList: s3.list_objects_v2 calls this listing has made
    manifests,          \* SpecFolder: what reading each key of the folder gives
    hms_in,             \* SpecDur: the text given to parse_duration() first
    seconds_in,         \* SpecDur: the number given to seconds_to_hms() first, -1 if none
    hms_out,            \* SpecDur: what seconds_to_hms() returned
    seconds_out,        \* SpecDur: what parse_duration() returned, -1 if not called
    dpc,                \* SpecDur: which calls were made
    samples,            \* SpecAgg: durations_seconds at line 171
    stats_data,         \* SpecAgg: the summary columns of stats_data
    distribution,       \* SpecAgg: per range, the count and the rounded percentage
    apc,                \* SpecAgg: "idle" | "collected" | "computed"
    backend             \* SpecLive: "failing" while calls can still fail, then "healthy"

procVars == <<state, pc, raised, exists, persisted, processed_folders, loaded,
              passed, succeeded, stats_output, todo, pos, folder_prefix,
              continuation_token, total_objects, json_files, i,
              durations_seconds, wait, result, list_response>>
listVars == <<pages, kind, token, acc, lpc, requests>>
durVars == <<hms_in, seconds_in, hms_out, seconds_out, dpc>>
aggVars == <<samples, stats_data, distribution, apc>>
caseVars == <<manifests, durVars, aggVars, backend>>
vars == <<procVars, listVars, caseVars>>

\* ----------------------------------------------------------------- helpers
\* s3.list_objects_v2 returned a page / raised, on the request for page p
Listed(p) == [status |-> "ok", page |-> p]
ListFailed(p) == [status |-> "error", page |-> p]
NotListed == [status |-> "none", page |-> 0]

Range(s) == {s[k] : k \in 1..Len(s)}

\* sorted(S) for a set of folder identifiers
sorted(S) ==
    CHOOSE s \in [1..Cardinality(S) -> S] :
        \A a, b \in 1..Cardinality(S) : a < b => s[a] < s[b]

RECURSIVE SelectJson(_)
\* [item['Key'] for item in response['Contents'] if item['Key'].endswith('.json')]
SelectJson(items) ==
    IF items = <<>> THEN <<>>
    ELSE (IF Head(items)[2] = "json" THEN <<Head(items)[1]>> ELSE <<>>)
         \o SelectJson(Tail(items))

\* the text of a duration field, as its numeric fields between the colons:
\* <<h, m, s>> for "h:mm:ss", <<>> for a text such as "bad"
DurTexts == {<<>>, <<0, 0, 0>>, <<0, 25, 0>>, <<24, 0, 0>>}

\* datetime.strptime(duration_str, "%H:%M:%S"): hours 0..23, minutes and
\* seconds 0..59, anything else raises and gives 0
parse_duration(duration_str) ==
    IF Len(duration_str) # 3 THEN 0
    ELSE IF duration_str[1] \in 0..23 /\ duration_str[2] \in 0..59
            /\ duration_str[3] \in 0..59
         THEN duration_str[1] * 3600 + duration_str[2] * 60 + duration_str[3]
         ELSE 0

\* divmod(int(seconds), 3600), divmod(remainder, 60) and the f-string, as the
\* numeric fields of the text
seconds_to_hms(seconds) ==
    <<seconds \div 3600, (seconds % 3600) \div 60, (seconds % 3600) % 60>>

\* what s3.get_object + decode + json.loads + data.get('duration') give for
\* one key
ReadOutcomes ==
    {[status |-> s, duration |-> <<>>] : s \in {"fetch_error", "bad_json", "no_duration"}}
    \cup {[status |-> "ok", duration |-> t] : t \in DurTexts}

\* lines 149-165: the sample list after one manifest was read
AppendSampleUnchecked(durations, outcome) ==
    IF outcome.status # "ok" THEN durations
    ELSE Append(durations, parse_duration(outcome.duration))
AppendSample(durations, outcome) ==
    IF outcome.status # "ok" THEN durations
    ELSE IF parse_duration(outcome.duration) > 0
         THEN Append(durations, parse_duration(outcome.duration))
         ELSE durations

\* current_folders - self.processed_folders
new_folders_all(current_folders, processed) == current_folders
new_folders(current_folders, processed) == current_folders \ processed

\* if self.process_folder(folder): self.processed_folders.add(folder)
AfterCallAlways(processed, folder, ok) == processed \cup {folder}
AfterCall(processed, folder, ok) ==
    IF ok THEN processed \cup {folder} ELSE processed

\* the frame of process_folder() and of get_json_files_from_folder() is gone
NoFolderFrame ==
    /\ folder_prefix' = 0
    /\ continuation_token' = 0
    /\ total_objects' = 0
    /\ json_files' = <<>>
    /\ i' = 0
    /\ durations_seconds' = <<>>

\* the frame of run_initial_processing() or check_new_folders() is gone
NoLoopFrame ==
    /\ todo' = <<>>
    /\ pos' = 0

\* the try of run_monitoring() covers check_new_folders() and
\* time.sleep(CHECK_INTERVAL); the time.sleep(5) of the handler is outside
InTry ==
    /\ state = "Polling"
    /\ \/ pc \in {"list", "next", "keys", "read", "save"}
       \/ pc = "sleep" /\ wait = CHECK_INTERVAL

\* the process ends, cleanly (main() returns) or with a traceback, and the
\* VideoStatsProcessor object is gone with it
Exit(how) ==
    /\ state' = how
    /\ pc' = "exit"
    /\ wait' = 0
    /\ processed_folders' = {}
    /\ loaded' = {}
    /\ passed' = {}
    /\ succeeded' = {}

\* an exception raised at the current position travels up the stack, out of
\* check_new_folders() or run_initial_processing() and what they called, to
\* the handlers of run_monitoring() if it was raised inside the try
PropagateUncaught(exc) ==
    /\ raised' = exc
    /\ NoFolderFrame
    /\ NoLoopFrame
    /\ IF InTry /\ exc = "KeyboardInterrupt"
       THEN Exit("Stopped")
       ELSE Exit("Crashed")
Propagate(exc) ==
    /\ raised' = exc
    /\ NoFolderFrame
    /\ NoLoopFrame
    /\ IF InTry
       THEN IF exc = "KeyboardInterrupt"
            THEN Exit("Stopped")
            ELSE /\ state' = "Polling"
                 /\ pc' = "sleep"
                 /\ wait' = RECOVERY_INTERVAL
                 /\ UNCHANGED <<processed_folders, loaded, passed, succeeded>>
       ELSE Exit("Crashed")

\* ------------------------------------------------------------- environment
\* a new upload batch appears in the bucket
Upload(f) ==
    /\ f \notin exists
    /\ exists' = exists \cup {f}
    /\ UNCHANGED <<state, pc, raised, persisted, processed_folders, loaded,
                   passed, succeeded, stats_output, todo, pos, folder_prefix,
                   continuation_token, total_objects, json_files, i,
                   durations_seconds, wait, result>>
    /\ UNCHANGED list_response
    /\ UNCHANGED <<listVars, caseVars>>

\* Ctrl-C while the process runs
Interrupt ==
    /\ state \in {"ColdStart", "Backfilling", "Polling"}
    /\ Propagate("KeyboardInterrupt")
    /\ UNCHANGED <<exists, persisted, stats_output, result>>
    /\ UNCHANGED list_response
    /\ UNCHANGED <<listVars, caseVars>>

\* the process is started again: VideoStatsProcessor() loads the file
Restart ==
    /\ state \in {"Stopped", "Crashed"}
    /\ IF persisted = Corrupt
       THEN /\ state' = "Crashed" /\ pc' = "exit" /\ raised' = "Exception"
            /\ processed_folders' = {} /\ loaded' = {}
       ELSE /\ state' = "ColdStart" /\ pc' = "main" /\ raised' = "none"
            /\ processed_folders' = persisted.folders
            /\ loaded' = persisted.folders
    /\ passed' = {} /\ succeeded' = {}
    /\ wait' = 0 /\ result' = "none"
    /\ UNCHANGED <<exists, persisted, stats_output, todo, pos, folder_prefix,
                   continuation_token, total_objects, json_files, i,
                   durations_seconds>>
    /\ list_response' = NotListed
    /\ UNCHANGED <<listVars, caseVars>>

\* --------------------------------------------------------------- main()
MainAlwaysMonitor ==
    /\ state = "ColdStart" /\ pc = "main"
    /\ state' = "Polling"
    /\ pc' = "list"
    /\ UNCHANGED <<raised, exists, persisted, processed_folders, loaded,
                   passed, succeeded, stats_output, todo, pos, folder_prefix,
                   continuation_token, total_objects, json_files, i,
                   durations_seconds, wait, result>>
    /\ UNCHANGED list_response
    /\ UNCHANGED <<listVars, caseVars>>
Main ==
    /\ state = "ColdStart" /\ pc = "main"
    /\ state' = IF processed_folders = {} THEN "Backfilling" ELSE "Polling"
    /\ pc' = "list"
    /\ UNCHANGED <<raised, exists, persisted, processed_folders, loaded,
                   passed, succeeded, stats_output, todo, pos, folder_prefix,
                   continuation_token, total_objects, json_files, i,
                   durations_seconds, wait, result>>
    /\ UNCHANGED list_response
    /\ UNCHANGED <<listVars, caseVars>>

\* ------------------------------------------- get_all_upload_folders()
\* run_initial_processing(): all_folders = self.get_all_upload_folders()
InitialList ==
    /\ state = "Backfilling" /\ pc = "list"
    /\ todo' = sorted(exists)
    /\ pos' = 0
    /\ pc' = "next"
    /\ UNCHANGED <<state, raised, exists, persisted, processed_folders, loaded,
                   passed, succeeded, stats_output, folder_prefix,
                   continuation_token, total_objects, json_files, i,
                   durations_seconds, wait, result>>
    /\ list_response' = Listed(1)
    /\ UNCHANGED <<listVars, caseVars>>

\* check_new_folders(): the listing, the set difference and the branch on it;
\* with nothing new, run_monitoring() goes on to time.sleep(CHECK_INTERVAL)
CheckList ==
    /\ state = "Polling" /\ pc = "list"
    /\ LET new == new_folders(exists, processed_folders)
       IN  IF new # {}
           THEN /\ todo' = sorted(new)
                /\ pc' = "next"
                /\ wait' = 0
           ELSE /\ todo' = <<>>
                /\ pc' = "sleep"
                /\ wait' = CHECK_INTERVAL
    /\ pos' = 0
    /\ UNCHANGED <<state, raised, exists, persisted, processed_folders, loaded,
                   passed, succeeded, stats_output, folder_prefix,
                   continuation_token, total_objects, json_files, i,
                   durations_seconds, result>>
    /\ list_response' = Listed(1)
    /\ UNCHANGED <<listVars, caseVars>>

\* s3.list_objects_v2 raises on some page of the folder listing
ListError ==
    /\ state \in {"Backfilling", "Polling"} /\ pc = "list"
    /\ Propagate("Exception")
    /\ UNCHANGED <<exists, persisted, stats_output, result>>
    /\ list_response' = ListFailed(1)
    /\ UNCHANGED <<listVars, caseVars>>

\* ------------------------------------------------- the for loops over todo
\* the loop takes the next folder and calls process_folder(folder)
NextFolder ==
    /\ state \in {"Backfilling", "Polling"} /\ pc = "next"
    /\ pos < Len(todo)
    /\ pos' = pos + 1
    /\ folder_prefix' = todo[pos + 1]
    /\ passed' = passed \cup {todo[pos + 1]}
    /\ continuation_token' = 0
    /\ total_objects' = 0
    /\ json_files' = <<>>
    /\ i' = 0
    /\ durations_seconds' = <<>>
    /\ result' = "none"
    /\ pc' = "keys"
    /\ UNCHANGED <<state, raised, exists, persisted, processed_folders, loaded,
                   succeeded, stats_output, todo, wait>>
    /\ UNCHANGED list_response
    /\ UNCHANGED <<listVars, caseVars>>

\* the loop is exhausted: on to self.save_processed_folders()
LoopDone ==
    /\ state \in {"Backfilling", "Polling"} /\ pc = "next"
    /\ pos = Len(todo)
    /\ pc' = "save"
    /\ UNCHANGED <<state, raised, exists, persisted, processed_folders, loaded,
                   passed, succeeded, stats_output, todo, pos, folder_prefix,
                   continuation_token, total_objects, json_files, i,
                   durations_seconds, wait, result>>
    /\ UNCHANGED list_response
    /\ UNCHANGED <<listVars, caseVars>>

\* ------------------------------------------------------- process_folder()
\* the objects one page of the manifest listing can hold: keys numbered on
\* from the objects seen so far, each ending in .json or not
PageItems(seen) ==
    UNION {{[k \in 1..n |-> <<seen + k, ext[k]>>] : ext \in [1..n -> {"json", "other"}]}
           : n \in 0..(MaxKeys - seen)}

\* process_folder() returns to the for loop, which adds the folder or not
Return(outcome) ==
    /\ result' = outcome
    /\ processed_folders' = AfterCall(processed_folders, folder_prefix, outcome = "Success")
    /\ succeeded' = IF outcome = "Success" THEN succeeded \cup {folder_prefix} ELSE succeeded
    /\ pc' = "next"
    /\ NoFolderFrame

\* one iteration of the while loop of get_json_files_from_folder(), and on the
\* last page the return and the `if not json_files` of process_folder()
FetchKeysPage ==
    /\ pc = "keys"
    /\ \E items \in PageItems(total_objects), truncated \in BOOLEAN :
        /\ truncated => (Len(items) > 0 /\ total_objects + Len(items) < MaxKeys)
        /\ IF truncated
           THEN /\ json_files' = json_files \o SelectJson(items)
                /\ total_objects' = total_objects + Len(items)
                /\ continuation_token' = continuation_token + 1
                /\ UNCHANGED <<pc, result, processed_folders, succeeded,
                               folder_prefix, i, durations_seconds>>
           ELSE IF json_files \o SelectJson(items) = <<>>
                THEN Return("Skipped")
                ELSE /\ json_files' = json_files \o SelectJson(items)
                     /\ total_objects' = total_objects + Len(items)
                     /\ pc' = "read"
                     /\ UNCHANGED <<result, processed_folders, succeeded,
                                    folder_prefix, continuation_token, i,
                                    durations_seconds>>
    /\ UNCHANGED <<state, raised, exists, persisted, loaded, passed,
                   stats_output, todo, pos, wait>>
    /\ list_response' = Listed(continuation_token + 1)
    /\ UNCHANGED <<listVars, caseVars>>

\* s3.list_objects_v2 raises on some page of the manifest listing, and
\* process_folder() catches nothing there
FetchKeysErrorPartial ==
    /\ pc = "keys"
    /\ IF json_files = <<>>
       THEN Return("Skipped")
       ELSE /\ pc' = "read"
            /\ UNCHANGED <<result, processed_folders, succeeded,
                           folder_prefix, continuation_token, total_objects,
                           json_files, i, durations_seconds>>
    /\ UNCHANGED <<state, raised, exists, persisted, loaded, passed,
                   stats_output, todo, pos, wait>>
    /\ list_response' = ListFailed(continuation_token + 1)
    /\ UNCHANGED <<listVars, caseVars>>
FetchKeysError ==
    /\ pc = "keys"
    /\ result' = "Failed"
    /\ Propagate("Exception")
    /\ UNCHANGED <<exists, persisted, stats_output>>
    /\ list_response' = ListFailed(continuation_token + 1)
    /\ UNCHANGED <<listVars, caseVars>>

\* one iteration of `for i, key in enumerate(json_files, 1)`, the read of the
\* key giving outcome; the variant lets the exception of a failed read leave
\* the loop
ReadItemAbortOnFailure(outcome) ==
    /\ pc = "read"
    /\ i < Len(json_files)
    /\ IF outcome.status = "ok"
       THEN /\ durations_seconds' = AppendSample(durations_seconds, outcome)
            /\ i' = i + 1
            /\ UNCHANGED <<state, pc, raised, processed_folders, loaded, passed,
                           succeeded, todo, pos, folder_prefix,
                           continuation_token, total_objects, json_files,
                           wait, result>>
       ELSE /\ result' = "Failed"
            /\ Propagate("Exception")
    /\ UNCHANGED <<exists, persisted, stats_output>>
    /\ UNCHANGED list_response
    /\ UNCHANGED <<listVars, caseVars>>
ReadItemGiving(outcome) ==
    /\ pc = "read"
    /\ i < Len(json_files)
    /\ durations_seconds' = AppendSample(durations_seconds, outcome)
    /\ i' = i + 1
    /\ UNCHANGED <<state, pc, raised, exists, persisted, processed_folders,
                   loaded, passed, succeeded, stats_output, todo, pos,
                   folder_prefix, continuation_token, total_objects,
                   json_files, wait, result>>
    /\ UNCHANGED list_response
    /\ UNCHANGED <<listVars, caseVars>>

\* the read of a key of the bucket, whatever it holds
ReadItem == \E outcome \in ReadOutcomes : ReadItemGiving(outcome)

\* the read of a key of a folder whose objects are known
ReadKey == pc = "read" /\ i < Len(json_files) /\ ReadItemGiving(manifests[json_files[i + 1]])

\* `if not durations_seconds: return False`
FinishSkippedAsSuccess ==
    /\ pc = "read"
    /\ i = Len(json_files)
    /\ durations_seconds = <<>>
    /\ stats_output' = stats_output \cup {folder_prefix}
    /\ Return("Success")
    /\ UNCHANGED <<state, raised, exists, persisted, loaded, passed, todo, pos,
                   wait>>
    /\ UNCHANGED list_response
    /\ UNCHANGED <<listVars, caseVars>>
FinishSkipped ==
    /\ pc = "read"
    /\ i = Len(json_files)
    /\ durations_seconds = <<>>
    /\ Return("Skipped")
    /\ UNCHANGED <<state, raised, exists, persisted, loaded, passed,
                   stats_output, todo, pos, wait>>
    /\ UNCHANGED list_response
    /\ UNCHANGED <<listVars, caseVars>>

\* the statistics, the two CSV files, `return True`
FinishSuccess ==
    /\ pc = "read"
    /\ i = Len(json_files)
    /\ durations_seconds # <<>>
    /\ stats_output' = stats_output \cup {folder_prefix}
    /\ Return("Success")
    /\ UNCHANGED <<state, raised, exists, persisted, loaded, passed, todo, pos,
                   wait>>
    /\ UNCHANGED list_response
    /\ UNCHANGED <<listVars, caseVars>>

\* to_csv raises: on the first file nothing is written, on the second the
\* statistics file is already there
WriteError ==
    /\ pc = "read"
    /\ i = Len(json_files)
    /\ durations_seconds # <<>>
    /\ \E written \in BOOLEAN :
        stats_output' = IF written THEN stats_output \cup {folder_prefix}
                        ELSE stats_output
    /\ result' = "Failed"
    /\ Propagate("Exception")
    /\ UNCHANGED <<exists, persisted>>
    /\ UNCHANGED list_response
    /\ UNCHANGED <<listVars, caseVars>>

\* ----------------------------------------------- save_processed_folders()
\* the file is rewritten; run_initial_processing() then returns to main(),
\* which enters run_monitoring(); check_new_folders() returns to the sleep
SaveOnlyWhenPolling ==
    /\ state \in {"Backfilling", "Polling"} /\ pc = "save"
    /\ persisted' = IF state = "Backfilling" THEN persisted ELSE File(processed_folders)
    /\ IF state = "Backfilling"
       THEN /\ state' = "Polling"
            /\ pc' = "list"
            /\ wait' = 0
       ELSE /\ state' = "Polling"
            /\ pc' = "sleep"
            /\ wait' = CHECK_INTERVAL
    /\ NoLoopFrame
    /\ UNCHANGED <<raised, exists, processed_folders, loaded, passed,
                   succeeded, stats_output, folder_prefix,
                   continuation_token, total_objects, json_files, i,
                   durations_seconds, result>>
    /\ UNCHANGED list_response
    /\ UNCHANGED <<listVars, caseVars>>
Save ==
    /\ state \in {"Backfilling", "Polling"} /\ pc = "save"
    /\ persisted' = File(processed_folders)
    /\ IF state = "Backfilling"
       THEN /\ state' = "Polling"
            /\ pc' = "list"
            /\ wait' = 0
       ELSE /\ state' = "Polling"
            /\ pc' = "sleep"
            /\ wait' = CHECK_INTERVAL
    /\ NoLoopFrame
    /\ UNCHANGED <<raised, exists, processed_folders, loaded, passed,
                   succeeded, stats_output, folder_prefix,
                   continuation_token, total_objects, json_files, i,
                   durations_seconds, result>>
    /\ UNCHANGED list_response
    /\ UNCHANGED <<listVars, caseVars>>

\* open() raises and the file is as it was, or the write fails after open()
\* has truncated the file
SaveError ==
    /\ state \in {"Backfilling", "Polling"} /\ pc = "save"
    /\ persisted' \in {persisted, Corrupt}
    /\ Propagate("Exception")
    /\ UNCHANGED <<exists, stats_output, result>>
    /\ UNCHANGED list_response
    /\ UNCHANGED <<listVars, caseVars>>

\* ------------------------------------------------------- run_monitoring()
\* time.sleep() returns and the while loop starts its next iteration
Wake ==
    /\ state = "Polling" /\ pc = "sleep"
    /\ pc' = "list"
    /\ wait' = 0
    /\ raised' = "none"
    /\ UNCHANGED <<state, exists, persisted, processed_folders, loaded, passed,
                   succeeded, stats_output, todo, pos, folder_prefix,
                   continuation_token, total_objects, json_files, i,
                   durations_seconds, result>>
    /\ UNCHANGED list_response
    /\ UNCHANGED <<listVars, caseVars>>

\* ------------------------------------------------------------ pagination
\* the backend holds n objects, numbered in listing order, and answers a
\* request with the page the token names (the first one without a token)
Paginate(n, ps, ext) ==
    LET np == IF n = 0 THEN 1 ELSE (n + ps - 1) \div ps
    IN  [p \in 1..np |->
            [items |-> [k \in 1..(IF p * ps <= n THEN ps ELSE n - (p - 1) * ps)
                            |-> <<(p - 1) * ps + k, ext[(p - 1) * ps + k]>>],
             IsTruncated |-> p < np,
             NextContinuationToken |-> IF p < np THEN p + 1 ELSE 0]]

Backends ==
    UNION {{Paginate(np[1], np[2], ext) : ext \in [1..np[1] -> {"json", "other"}]}
           : np \in (0..MaxListKeys) \X (1..MaxPageSize)}

\* s3.list_objects_v2(**params)
list_objects_v2(ContinuationToken) ==
    pages[IF ContinuationToken = 0 THEN 1 ELSE ContinuationToken]

\* [content['Prefix'] for content in response['CommonPrefixes']]
Prefixes(items) == [k \in 1..Len(items) |-> items[k][1]]

\* folders.extend(batch_folders) / json_files.extend(batch_files)
extend_replace(list, batch) == batch
extend(list, batch) == list \o batch

\* one iteration of the while loop of get_all_upload_folders() or of
\* get_json_files_from_folder(), with the return after the last page
FetchPage ==
    /\ lpc = "loop"
    /\ LET response == list_objects_v2(token)
       IN  /\ acc' = extend(acc, IF kind = "folders"
                                 THEN Prefixes(response.items)
                                 ELSE SelectJson(response.items))
           /\ IF response.IsTruncated
              THEN token' = response.NextContinuationToken /\ lpc' = "loop"
              ELSE token' = token /\ lpc' = "returned"
    /\ requests' = requests + 1
    /\ UNCHANGED <<pages, kind>>
    /\ UNCHANGED <<procVars, caseVars>>

\* ------------------------------------------------------- specifications
ProcInit ==
    /\ state = "ColdStart" /\ pc = "main" /\ raised = "none"
    /\ exists = {} /\ persisted = File({})
    /\ processed_folders = {} /\ loaded = {}
    /\ passed = {} /\ succeeded = {} /\ stats_output = {}
    /\ todo = <<>> /\ pos = 0 /\ folder_prefix = 0
    /\ continuation_token = 0 /\ total_objects = 0 /\ json_files = <<>>
    /\ i = 0 /\ durations_seconds = <<>> /\ wait = 0 /\ result = "none"
    /\ list_response = NotListed

ListIdle ==
    /\ pages = <<>> /\ kind = "none" /\ token = 0 /\ acc = <<>>
    /\ lpc = "returned" /\ requests = 0

DurIdle ==
    /\ hms_in = <<>> /\ seconds_in = -1 /\ hms_out = <<>> /\ seconds_out = -1
    /\ dpc = "idle"

NoStats == [total |-> 0, sum |-> 0, min |-> 0, max |-> 0, median_x2 |-> 0]

AggIdle ==
    /\ samples = <<>> /\ stats_data = NoStats /\ distribution = <<>>
    /\ apc = "idle"

NoCase == manifests = <<>> /\ DurIdle /\ AggIdle /\ backend = "failing"

Init == ProcInit /\ ListIdle /\ NoCase

Next ==
    \/ \E f \in Folders : Upload(f)
    \/ Interrupt
    \/ Restart
    \/ Main
    \/ InitialList
    \/ CheckList
    \/ ListError
    \/ NextFolder
    \/ LoopDone
    \/ FetchKeysPage
    \/ FetchKeysError
    \/ ReadItem
    \/ FinishSkipped
    \/ FinishSuccess
    \/ WriteError
    \/ Save
    \/ SaveError
    \/ Wake

Spec == Init /\ [][Next]_vars

\* one run of the process, from an installation with no processed_folders.json
\* and an empty OUTPUT_DIR until the process has ended: stats_output is then
\* what this run has written
RunNext ==
    \/ \E f \in Folders : Upload(f)
    \/ Interrupt
    \/ Main
    \/ InitialList
    \/ CheckList
    \/ ListError
    \/ NextFolder
    \/ LoopDone
    \/ FetchKeysPage
    \/ FetchKeysError
    \/ ReadItem
    \/ FinishSkipped
    \/ FinishSuccess
    \/ WriteError
    \/ Save
    \/ SaveError
    \/ Wake

SpecRun == Init /\ [][RunNext]_vars

ListInit ==
    /\ pages \in Backends
    /\ kind \in {"folders", "manifests"}
    /\ token = 0 /\ acc = <<>> /\ lpc = "loop" /\ requests = 0
    /\ ProcInit
    /\ NoCase

ListNext == FetchPage

SpecList == ListInit /\ [][ListNext]_vars

\* backend b, except that its pages in D report IsTruncated without a
\* NextContinuationToken (a missing key and an empty string are both falsy
\* in `if continuation_token:`, and both are 0 here)
WithoutToken(b, D) ==
    [p \in DOMAIN b |->
        IF p \in D THEN [b[p] EXCEPT !.NextContinuationToken = 0] ELSE b[p]]

\* every backend with finitely many pages, whatever its truncated pages say
\* about the next token
AnyBackends ==
    UNION {{WithoutToken(b, D) : D \in SUBSET {p \in DOMAIN b : b[p].IsTruncated}}
           : b \in Backends}

\* the listing loop against any such backend, followed for MaxRequests
\* requests
FetchPageOfAny == requests < MaxRequests /\ FetchPage

ListAnyInit ==
    /\ pages \in AnyBackends
    /\ kind \in {"folders", "manifests"}
    /\ token = 0 /\ acc = <<>> /\ lpc = "loop" /\ requests = 0
    /\ ProcInit
    /\ NoCase

ListAnyNext == FetchPageOfAny

SpecListAny == ListAnyInit /\ [][ListAnyNext]_vars

\* one process_folder() call of a polling iteration, on a folder whose
\* objects, if read, give manifests[key]
FolderInit ==
    /\ state = "Polling" /\ pc = "keys" /\ raised = "none"
    /\ exists = {1} /\ persisted = File({})
    /\ processed_folders = {} /\ loaded = {}
    /\ passed = {1} /\ succeeded = {} /\ stats_output = {}
    /\ todo = <<1>> /\ pos = 1 /\ folder_prefix = 1
    /\ continuation_token = 0 /\ total_objects = 0 /\ json_files = <<>>
    /\ i = 0 /\ durations_seconds = <<>> /\ wait = 0 /\ result = "none"
    /\ list_response = Listed(1)
    /\ ListIdle
    /\ manifests \in [1..MaxKeys -> ReadOutcomes]
    /\ DurIdle
    /\ AggIdle
    /\ backend = "failing"

FolderNext ==
    \/ FetchKeysPage
    \/ FetchKeysError
    \/ ReadKey
    \/ FinishSkipped
    \/ FinishSuccess
    \/ WriteError

SpecFolder == FolderInit /\ [][FolderNext]_vars

\* ------------------------------------- parse_duration() and seconds_to_hms()
\* minutes and seconds the calls are tried on
FieldValues == {0, 1, 5, 9, 10, 59}

\* texts h:mm:ss with minutes and seconds in 0..59
HmsTexts == {<<h, m, sec>> : h \in 0..MaxHours, m \in FieldValues, sec \in FieldValues}

\* self.parse_duration(text) on a text, then self.seconds_to_hms() on its
\* result; self.seconds_to_hms(n) on a number, then self.parse_duration() on
\* its result
ParseText ==
    /\ dpc = "text"
    /\ seconds_out' = parse_duration(hms_in)
    /\ dpc' = "parsed"
    /\ UNCHANGED <<hms_in, seconds_in, hms_out, manifests>>
    /\ UNCHANGED <<procVars, listVars, aggVars, backend>>

FormatParsed ==
    /\ dpc = "parsed"
    /\ hms_out' = seconds_to_hms(seconds_out)
    /\ dpc' = "text_done"
    /\ UNCHANGED <<hms_in, seconds_in, seconds_out, manifests>>
    /\ UNCHANGED <<procVars, listVars, aggVars, backend>>

FormatSeconds ==
    /\ dpc = "seconds"
    /\ hms_out' = seconds_to_hms(seconds_in)
    /\ dpc' = "formatted"
    /\ UNCHANGED <<hms_in, seconds_in, seconds_out, manifests>>
    /\ UNCHANGED <<procVars, listVars, aggVars, backend>>

ParseFormatted ==
    /\ dpc = "formatted"
    /\ seconds_out' = parse_duration(hms_out)
    /\ dpc' = "seconds_done"
    /\ UNCHANGED <<hms_in, seconds_in, hms_out, manifests>>
    /\ UNCHANGED <<procVars, listVars, aggVars, backend>>

DurInit ==
    /\ \/ /\ dpc = "text"
          /\ hms_in \in HmsTexts
          /\ seconds_in = -1
       \/ /\ dpc = "seconds"
          /\ hms_in = <<>>
          /\ seconds_in \in {t[1] * 3600 + t[2] * 60 + t[3] : t \in HmsTexts}
    /\ hms_out = <<>> /\ seconds_out = -1
    /\ manifests = <<>>
    /\ AggIdle
    /\ backend = "failing"
    /\ ProcInit
    /\ ListIdle

DurNext ==
    \/ ParseText
    \/ FormatParsed
    \/ FormatSeconds
    \/ ParseFormatted

SpecDur == DurInit /\ [][DurNext]_vars

\* ------------------------------------ the statistics of process_folder()
RECURSIVE sum(_)
\* sum(durations_seconds)
sum(data) == IF data = <<>> THEN 0 ELSE Head(data) + sum(Tail(data))

\* min(durations_seconds), max(durations_seconds)
min(data) == CHOOSE v \in Range(data) : \A w \in Range(data) : v <= w
max(data) == CHOOSE v \in Range(data) : \A w \in Range(data) : v >= w

RECURSIVE Insert(_, _)
Insert(v, data) ==
    IF data = <<>> THEN <<v>>
    ELSE IF v <= Head(data) THEN <<v>> \o data
         ELSE <<Head(data)>> \o Insert(v, Tail(data))

RECURSIVE sorted_list(_)
\* sorted(data) for a list of numbers
sorted_list(data) ==
    IF data = <<>> THEN <<>> ELSE Insert(Head(data), sorted_list(Tail(data)))

\* statistics.median(data), doubled: data[n // 2] of the sorted data for an
\* odd n, (data[n // 2 - 1] + data[n // 2]) / 2 for an even n (0-based)
median_x2_unsorted(data) ==
    LET n == Len(data)
    IN  IF n % 2 = 1 THEN 2 * data[n \div 2 + 1]
        ELSE data[n \div 2] + data[n \div 2 + 1]
median_x2(data) == median_x2_unsorted(sorted_list(data))

\* ranges = [(0, 1800), (1800, 2400), (2400, 3000), (3000, 3600), (3600, inf)]
ranges ==
    <<[min_sec |-> 0, max_sec |-> 1800, inf |-> FALSE],
      [min_sec |-> 1800, max_sec |-> 2400, inf |-> FALSE],
      [min_sec |-> 2400, max_sec |-> 3000, inf |-> FALSE],
      [min_sec |-> 3000, max_sec |-> 3600, inf |-> FALSE],
      [min_sec |-> 3600, max_sec |-> 0, inf |-> TRUE]>>

\* min_sec <= d < max_sec
InRangeInclusive(d, r) == r.min_sec <= d /\ (r.inf \/ d <= r.max_sec)
InRange(d, r) == r.min_sec <= d /\ (r.inf \/ d < r.max_sec)

\* len([d for d in durations_seconds if min_sec <= d < max_sec])
count(data, r) == Cardinality({k \in 1..Len(data) : InRange(data[k], r)})

\* round((count / total_videos) * 100, 1), in tenths of a percent: the nearest
\* tenth, and the even one when two are equally near
percentage_tenths(c, total_videos) ==
    LET q == (c * 1000) \div total_videos
        r == (c * 1000) % total_videos
    IN  IF 2 * r < total_videos THEN q
        ELSE IF 2 * r > total_videos THEN q + 1
        ELSE IF q % 2 = 0 THEN q ELSE q + 1

\* durations the statistics are tried on: the ends of every range and the
\* two durations of the worked example
SampleValues == {1, 1500, 1799, 1800, 2399, 2400, 2710, 2999, 3000, 3599, 3600, 86399}

\* lines 171-188
Aggregate ==
    /\ apc = "collected"
    /\ stats_data' = [total |-> Len(samples),
                      sum |-> sum(samples),
                      min |-> min(samples),
                      max |-> max(samples),
                      median_x2 |-> median_x2(samples)]
    /\ distribution' = [b \in 1..Len(ranges) |->
                           [count |-> count(samples, ranges[b]),
                            tenths |-> percentage_tenths(count(samples, ranges[b]), Len(samples))]]
    /\ apc' = "computed"
    /\ UNCHANGED <<samples, manifests, durVars, backend>>
    /\ UNCHANGED <<procVars, listVars>>

AggInit ==
    /\ samples \in UNION {[1..n -> SampleValues] : n \in 1..MaxSamples}
    /\ stats_data = NoStats /\ distribution = <<>>
    /\ apc = "collected"
    /\ manifests = <<>>
    /\ DurIdle
    /\ backend = "failing"
    /\ ProcInit
    /\ ListIdle

AggNext == Aggregate

SpecAgg == AggInit /\ [][AggNext]_vars

\* ------------------------------------ one run with a backend that recovers
\* One run of the process, never interrupted, in a bucket where every folder
\* holds a manifest with a valid duration and the local disk takes every
\* write. While the backend is failing, a listing or a read can raise, and a
\* folder can still lack its manifests; from some moment on no call to the
\* backend fails any more.
Heal ==
    /\ backend = "failing"
    /\ backend' = "healthy"
    /\ UNCHANGED <<manifests, durVars, aggVars>>
    /\ UNCHANGED <<procVars, listVars>>

\* the manifest listing of a folder; once the backend is healthy it ends with
\* at least one .json key
LiveFetchKeys == FetchKeysPage /\ (backend = "healthy" => pc' # "next")

\* the read of a manifest; once the backend is healthy it gives a valid
\* duration
LiveRead == ReadItem /\ (backend = "healthy" => durations_seconds' # durations_seconds)

LiveListError == backend = "failing" /\ ListError
LiveFetchKeysError == backend = "failing" /\ FetchKeysError

\* the steps of the process itself
LiveStep ==
    \/ Main
    \/ InitialList
    \/ CheckList
    \/ LiveListError
    \/ NextFolder
    \/ LoopDone
    \/ LiveFetchKeys
    \/ LiveFetchKeysError
    \/ LiveRead
    \/ FinishSkipped
    \/ FinishSuccess
    \/ Save
    \/ Wake

LiveNext ==
    \/ \E f \in Folders : Upload(f)
    \/ Heal
    \/ LiveStep

\* a running process takes its next step and time.sleep() returns; the
\* backend does stop failing
SpecLive == Init /\ [][LiveNext]_vars /\ WF_vars(LiveStep) /\ WF_vars(Heal)

\* ----------------------------------------------------------------- claims
\* the process has ended, by a clean stop or by an uncaught exception
Terminated == state \in {"Stopped", "Crashed"}

\* check_new_folders() is running: one polling iteration, the sleeps excluded
Iterating == state = "Polling" /\ pc \in {"list", "next", "keys", "read", "save"}

\* a process_folder() call has started and has not reached a terminal state
InFlight == pc \in {"keys", "read"}

\* C1: a folder identifier in the processed set loaded from the persisted
\* file at this start of the program is never passed to process_folder(),
\* neither as the running call nor as an earlier call of this run.
C1_LoadedNeverProcessed ==
    /\ passed \cap loaded = {}
    /\ InFlight => folder_prefix \notin loaded

\* C1 witness: persisted {1, 2} was loaded, {1, 2, 3} is discovered and only 3
\* was passed to process_folder().
C1_Witness ==
    /\ state = "Polling"
    /\ loaded = {1, 2}
    /\ exists = {1, 2, 3}
    /\ passed = {3}
    /\ result = "Success"

\* C2: every folder of the in-memory processed set that was not loaded at
\* startup had a process_folder() call that returned Success in this run, and
\* a call that ends Skipped or Failed adds nothing to the processed set.
C2_AddedOnlyOnSuccess ==
    /\ [](processed_folders \subseteq (loaded \cup succeeded))
    /\ [][(InFlight /\ result' \in {"Skipped", "Failed"})
            => (processed_folders' \subseteq processed_folders)]_vars

\* C2 witness: one folder was added after a Success and the last call, for
\* another folder, ended Skipped and left that folder out.
C2_Witness ==
    /\ processed_folders \ loaded # {}
    /\ result = "Skipped"
    /\ passed \ processed_folders # {}

\* C3: the process ends only on an explicit stop signal: no storage error or
\* other unexpected error terminates it, from program start on.
C3_OnlyStopSignalTerminates == Terminated => raised = "KeyboardInterrupt"

\* C4: whenever the monitor loop is suspended between iterations, on the
\* normal interval path or on the error-recovery path, the persisted processed
\* set equals the in-memory processed set.
C4_SavedWheneverSuspended ==
    (state = "Polling" /\ pc = "sleep") => persisted = File(processed_folders)

\* C5: an error other than the stop signal raised during one polling iteration
\* keeps the loop in Polling, waiting the recovery interval of 5 and not the
\* normal 300, and the wait is followed by the start of another iteration
\* unless the stop signal ends it.
C5_ErrorContained ==
    /\ [][(Iterating /\ raised' = "Exception")
            => (state' = "Polling" /\ pc' = "sleep" /\ wait' = 5)]_vars
    /\ [][(state = "Polling" /\ pc = "sleep" /\ wait = 5 /\ pc' # pc)
            => ((state' = "Polling" /\ pc' = "list")
                \/ raised' = "KeyboardInterrupt")]_vars

\* C5 witness: the manifest listing of a folder raised during a polling
\* iteration and the loop is in its recovery wait.
C5_Witness ==
    /\ state = "Polling"
    /\ pc = "sleep"
    /\ wait = 5
    /\ raised = "Exception"
    /\ result = "Failed"

\* C6: a process_folder() call in flight when the stop signal arrives runs to
\* its terminal state before the monitor loop reaches Stopped: the loop never
\* goes to Stopped from inside a call.
C6_StopOnlyBetweenIterations ==
    [][(state = "Polling" /\ InFlight) => state' # "Stopped"]_vars

\* C7: an interrupt delivered at any point of the monitor loop (during an
\* iteration, the normal sleep or the recovery sleep) takes the loop to
\* Stopped, never out of the process as an uncaught exception.
C7_InterruptStopsCleanly ==
    [][(state = "Polling" /\ raised' = "KeyboardInterrupt") => state' = "Stopped"]_vars

\* C8: when the processed set loads empty, main() enters Backfilling and every
\* discovered folder has been passed to process_folder() when Backfilling
\* hands over to Polling; when it loads non-empty, main() goes directly to
\* Polling.
C8_BackfillBeforePolling ==
    /\ [][(state = "ColdStart" /\ ~Terminated' /\ state' # "ColdStart")
            => state' = (IF loaded = {} THEN "Backfilling" ELSE "Polling")]_vars
    /\ [][(state = "Backfilling" /\ state' = "Polling")
            => (Range(todo) \subseteq passed /\ pos = Len(todo) /\ ~InFlight)]_vars
    /\ [](state = "Backfilling" => loaded = {})

\* C8 witness: after a cold start with two folders in the bucket, Backfilling
\* has passed both to process_folder() and the first polling iteration is
\* about to start.
C8_Witness ==
    /\ state = "Polling"
    /\ pc = "list"
    /\ loaded = {}
    /\ Cardinality(exists) >= 2
    /\ passed = exists
    /\ persisted = File(succeeded)
    /\ raised = "none"

\* the keys the backend holds that the listing is to return
Matching ==
    {it[1] : it \in {x \in UNION {Range(pages[p].items) : p \in DOMAIN pages} :
                        kind = "folders" \/ x[2] = "json"}}

\* C9: when the listing returns, the backend has reported no more pages, and
\* the result holds every matching prefix or key of every page exactly once
\* and nothing else.
C9_AllPagesOnce ==
    lpc = "returned" =>
        /\ ~list_objects_v2(token).IsTruncated
        /\ \A key \in Matching : Cardinality({k \in 1..Len(acc) : acc[k] = key}) = 1
        /\ Range(acc) \subseteq Matching

\* C9 witness: a manifest listing over two pages or more has returned, with
\* keys kept from a page other than the last and a key left out.
C9_Witness ==
    /\ lpc = "returned"
    /\ kind = "manifests"
    /\ Len(pages) >= 2
    /\ Len(acc) >= 2
    /\ Len(acc) < Cardinality(UNION {Range(pages[p].items) : p \in DOMAIN pages})

\* C10: a backend error on any page of the manifest listing of a folder ends
\* the call as Failed: the exception leaves process_folder() for its caller
\* (the recovery handler, or out of the process), no manifest of a partial
\* listing is read, no output record is written and the folder is in neither
\* the in-memory nor the persisted processed set.
C10_ListingErrorFailsFolder ==
    [][(pc = "keys" /\ list_response'.status = "error")
        => /\ result' = "Failed"
           /\ raised' = "Exception"
           /\ pc' \in {"sleep", "exit"}
           /\ stats_output' = stats_output
           /\ folder_prefix \notin processed_folders'
           /\ persisted'.folders = persisted.folders
           /\ folder_prefix \notin persisted'.folders]_vars

\* C10 witness: the second page of a manifest listing raised during a polling
\* iteration; the call ended Failed and the loop is in its recovery wait.
C10_Witness ==
    /\ list_response = ListFailed(2)
    /\ result = "Failed"
    /\ state = "Polling"
    /\ pc = "sleep"
    /\ passed # {}
    /\ passed \cap processed_folders = {}

\* C11: a process_folder() call whose manifest listing completes with no .json
\* key, or that has read every manifest without one valid (> 0) duration,
\* ends Skipped; and a call that ends Skipped writes no output file and leaves
\* the in-memory processed set and the persisted set as they were.
C11_SkippedLeavesNoTrace ==
    /\ [](pc = "read" => json_files # <<>>)
    /\ [][(pc = "keys" /\ list_response'.status = "ok" /\ pc' \notin {"keys", "read"}
              /\ raised' # "KeyboardInterrupt")
            => result' = "Skipped"]_vars
    /\ [][(pc = "read" /\ i = Len(json_files) /\ durations_seconds = <<>>
              /\ pc' # "read" /\ raised' # "KeyboardInterrupt")
            => result' = "Skipped"]_vars
    /\ [][(InFlight /\ result' = "Skipped")
            => (/\ pc' = "next"
                /\ stats_output' = stats_output
                /\ processed_folders' = processed_folders
                /\ persisted' = persisted)]_vars

\* C11 witness: the only folder of the bucket was given to process_folder()
\* in a polling iteration, its listing took two pages, and the call ended
\* Skipped with no output, nothing added and nothing saved.
C11_Witness ==
    /\ state = "Polling"
    /\ pc = "next"
    /\ result = "Skipped"
    /\ list_response = Listed(2)
    /\ passed = {1}
    /\ exists = {1}
    /\ processed_folders = {}
    /\ stats_output = {}
    /\ persisted = File({})

\* the read of the key fails, or gives a text that is not h:mm:ss
ItemFailure(key) == manifests[key].status # "ok" \/ Len(manifests[key].duration) # 3

RECURSIVE ValidSamples(_)
\* the samples of the keys that did not fail and hold more than zero seconds
ValidSamples(keys) ==
    IF keys = <<>> THEN <<>>
    ELSE (IF ItemFailure(Head(keys)) \/ parse_duration(manifests[Head(keys)].duration) = 0
          THEN <<>>
          ELSE <<parse_duration(manifests[Head(keys)].duration)>>)
         \o ValidSamples(Tail(keys))

\* C12: a manifest whose read fails (fetch failure, invalid JSON, missing
\* duration field, malformed duration text) does not end the process_folder()
\* call: the loop goes on to the next key with the sample list as it was; the
\* call leaves the loop only when every key was read, and its outcome is
\* Skipped when the other keys gave no valid sample and otherwise follows
\* from exactly their samples.
C12_ItemFailureContained ==
    /\ [][(pc = "read" /\ i < Len(json_files) /\ ItemFailure(json_files[i + 1]))
            => (/\ pc' = "read"
                /\ i' = i + 1
                /\ result' = "none"
                /\ raised' = raised
                /\ json_files' = json_files
                /\ durations_seconds' = durations_seconds)]_vars
    /\ [][(pc = "read" /\ pc' # "read")
            => (/\ i = Len(json_files)
                /\ durations_seconds = ValidSamples(json_files)
                /\ (ValidSamples(json_files) = <<>>) <=> (result' = "Skipped"))]_vars

\* C12 witness: the folder holds two manifests, listed over two pages, the
\* first without a duration field and the second with a valid duration; both
\* were read and the call is about to end with the one sample.
C12_Witness ==
    /\ pc = "read"
    /\ json_files = <<1, 2>>
    /\ i = 2
    /\ manifests[1].status = "no_duration"
    /\ manifests[2] = [status |-> "ok", duration |-> <<0, 25, 0>>]
    /\ durations_seconds = <<1500>>
    /\ list_response = Listed(2)

\* C14: every element of the sample list is an integer greater than zero; the
\* list has no element for a manifest whose duration text is malformed or
\* gives zero seconds; and the statistics are computed (the call goes on to
\* write output, ending Success or failing in the write) only on a non-empty
\* list.
C14_OnlyPositiveSamples ==
    /\ [](\A k \in 1..Len(durations_seconds) :
            durations_seconds[k] \in Nat /\ durations_seconds[k] > 0)
    /\ [](pc = "read" =>
            Len(durations_seconds) =
                Cardinality({k \in 1..i : /\ manifests[json_files[k]].status = "ok"
                                          /\ parse_duration(manifests[json_files[k]].duration) # 0}))
    /\ [][(pc = "read" /\ (result' \in {"Success", "Failed"} \/ stats_output' # stats_output))
            => durations_seconds # <<>>]_vars

\* C14 witness: the two manifests of the folder hold "0:00:00" and "0:25:00";
\* both were read and the sample list is [1500].
C14_Witness ==
    /\ pc = "read"
    /\ i = 2
    /\ manifests[json_files[1]] = [status |-> "ok", duration |-> <<0, 0, 0>>]
    /\ manifests[json_files[2]] = [status |-> "ok", duration |-> <<0, 25, 0>>]
    /\ durations_seconds = <<1500>>

\* C13: for every text h:mm:ss with minutes and seconds in 0..59 and any number
\* of hours, seconds_to_hms(parse_duration(text)) is the text again, and for
\* every number n >= 0, parse_duration(seconds_to_hms(n)) is n again.
C13_ParseInvertsFormat ==
    /\ dpc = "text_done" => hms_out = hms_in
    /\ dpc = "seconds_done" => seconds_out = seconds_in

\* the bucket of a duration: 1 for [0,1800), 2 for [1800,2400), 3 for
\* [2400,3000), 4 for [3000,3600), 5 for [3600,inf)
Bucket(d) ==
    IF d < 1800 THEN 1 ELSE IF d < 2400 THEN 2 ELSE IF d < 3000 THEN 3
    ELSE IF d < 3600 THEN 4 ELSE 5

RECURSIVE Total(_, _)
\* f[1] + ... + f[n]
Total(f, n) == IF n = 0 THEN 0 ELSE f[n] + Total(f, n - 1)

\* C15: for a non-empty list of positive durations, each sample is in the
\* range of exactly one of the five buckets and is counted there, so the five
\* counts add up to the number of samples; each percentage is count/total*100
\* to the nearest tenth, and the five percentages add up to 100 within the
\* five half-tenths the roundings can move them.
C15_BucketsPartition ==
    apc = "computed" =>
        /\ Len(distribution) = 5
        /\ \A k \in 1..Len(samples) :
              /\ Cardinality({b \in 1..5 : InRange(samples[k], ranges[b])}) = 1
              /\ InRange(samples[k], ranges[Bucket(samples[k])])
        /\ \A b \in 1..5 :
              /\ distribution[b].count
                    = Cardinality({k \in 1..Len(samples) : Bucket(samples[k]) = b})
              /\ 2 * (distribution[b].tenths * Len(samples) - distribution[b].count * 1000)
                    \in (0 - Len(samples))..Len(samples)
        /\ Total([b \in 1..5 |-> distribution[b].count], 5) = Len(samples)
        /\ Total([b \in 1..5 |-> distribution[b].tenths], 5) \in 998..1002

\* C15 witness: three samples, two of them on the bounds 1800 and 3600, in
\* three buckets with 33.3 percent each.
C15_Witness ==
    /\ apc = "computed"
    /\ samples = <<1800, 3600, 1799>>
    /\ distribution[1] = [count |-> 1, tenths |-> 333]
    /\ distribution[2] = [count |-> 1, tenths |-> 333]
    /\ distribution[5] = [count |-> 1, tenths |-> 333]

\* the r-th smallest sample
Ranked(r) ==
    CHOOSE v \in Range(samples) :
        /\ Cardinality({k \in 1..Len(samples) : samples[k] < v}) < r
        /\ Cardinality({k \in 1..Len(samples) : samples[k] <= v}) >= r

\* C16: for a non-empty list of positive durations the summary has total =
\* the number of samples, sum = their sum, min and max = the smallest and
\* the largest sample, median = the middle sample in sorted order, or the
\* average of the two middle ones for an even count; for [1500, 2710] that
\* is total 2, sum 4210, min 1500, max 2710, median 2105, one sample in
\* [0,1800) and one in [2400,3000).
C16_SummaryStatistics ==
    apc = "computed" =>
        /\ stats_data.total = Len(samples)
        /\ stats_data.sum = Total(samples, Len(samples))
        /\ stats_data.min \in Range(samples)
        /\ stats_data.max \in Range(samples)
        /\ \A k \in 1..Len(samples) :
              stats_data.min <= samples[k] /\ samples[k] <= stats_data.max
        /\ stats_data.median_x2 =
              IF Len(samples) % 2 = 1
              THEN 2 * Ranked((Len(samples) + 1) \div 2)
              ELSE Ranked(Len(samples) \div 2) + Ranked(Len(samples) \div 2 + 1)
        /\ samples = <<1500, 2710>> =>
              /\ stats_data = [total |-> 2, sum |-> 4210, min |-> 1500,
                               max |-> 2710, median_x2 |-> 2 * 2105]
              /\ [b \in 1..5 |-> distribution[b].count] = <<1, 0, 1, 0, 0>>

\* C16 witness: the statistics of [2710, 1500], the worked example with the
\* larger sample first, are computed.
C16_Witness ==
    /\ apc = "computed"
    /\ samples = <<2710, 1500>>
    /\ stats_data.median_x2 = 4210
    /\ stats_data.min = 1500

\* C17: a polling iteration that finds no new folder goes to the interval
\* sleep with no process_folder() call, no output and both processed sets as
\* they were; the persisted set is written during Polling only once every new
\* folder of the iteration, taken in sorted order, was given to
\* process_folder(); and an iteration that found a new folder has persisted
\* the processed set when it ends: the file then holds the in-memory set.
C17_PollingSavesIffNewFolder ==
    /\ [][(state = "Polling" /\ pc = "list" /\ pc' \in {"next", "sleep"}
              /\ raised' = raised /\ exists \subseteq processed_folders)
            => (/\ pc' = "sleep"
                /\ wait' = CHECK_INTERVAL
                /\ passed' = passed
                /\ stats_output' = stats_output
                /\ processed_folders' = processed_folders
                /\ persisted' = persisted)]_vars
    /\ [](state = "Polling" => \A a, b \in 1..Len(todo) : a < b => todo[a] < todo[b])
    /\ [][(state = "Polling" /\ persisted' # persisted)
            => (/\ pc = "save"
                /\ todo # <<>>
                /\ pos = Len(todo)
                /\ Range(todo) \subseteq passed)]_vars
    /\ [][(Iterating /\ todo # <<>> /\ state' = "Polling" /\ pc' = "sleep")
            => persisted' = File(processed_folders')]_vars

\* C18: while Backfilling goes on the persisted set is not written; the step
\* that ends Backfilling and enters Polling is the one write of the persisted
\* set, made when the loop over the discovered folders is exhausted and every
\* one of them was given to process_folder(), and the set written is the set
\* of folders whose call ended Success.
C18_BackfillSavesOnceAtEnd ==
    /\ [][(state = "Backfilling" /\ state' = "Backfilling") => persisted' = persisted]_vars
    /\ [][(state = "Backfilling" /\ state' = "Polling")
            => (/\ pc = "save"
                /\ pos = Len(todo)
                /\ Range(todo) \subseteq passed
                /\ persisted' = File(succeeded)
                /\ processed_folders' = succeeded)]_vars
    /\ [][(state # "Polling" /\ state' = "Polling" /\ loaded = {})
            => state = "Backfilling"]_vars

\* C18 witness: Backfilling found folders 1 and 2, the call for one of them
\* ended Success and the last call did not; the set was saved and Polling is
\* about to make its first listing.
C18_Witness ==
    /\ state = "Polling"
    /\ pc = "list"
    /\ loaded = {}
    /\ passed = {1, 2}
    /\ Cardinality(succeeded) = 1
    /\ result # "Success"
    /\ persisted = File(succeeded)
    /\ list_response.status = "ok"
    /\ raised = "none"

\* C19: in a run that no stop signal ends and whose backend stops failing,
\* every folder of the bucket (each holds a manifest with a valid duration) is
\* eventually in the persisted processed set, also when an earlier call for
\* it ended Skipped or Failed.
C19_EventuallyPersisted ==
    \A f \in Folders : (f \in exists) ~> (persisted.valid /\ f \in persisted.folders)

\* C20: within one run of the process no folder has a second process_folder()
\* call ending Success, and the statistics file of a folder is written at most
\* once in the run: a call that ends Success is for a folder with no earlier
\* Success and no statistics file written earlier in this run.
C20_OneRecordPerRun ==
    [][(InFlight /\ result' = "Success")
        => (folder_prefix \notin succeeded /\ folder_prefix \notin stats_output)]_vars

\* C21: against a backend with finitely many pages the listing loop requests
\* no page twice, so it returns with at most as many requests as there are
\* pages: while the loop is still running it has made fewer requests than
\* the backend has pages, also when a page reports IsTruncated with a missing
\* or empty NextContinuationToken.
C21_ListingTerminates == lpc = "loop" => requests < Len(pages)

====
